---- MODULE Spec2Model ----
(***************************************************************************)
(* A model of the vertical shooter in src/src/main.rs: the per-frame       *)
(* update of MainState (EventHandler::update), the collision test          *)
(* GameObject::intersects and the particle pool ParticleSystem.            *)
(*                                                                         *)
(* Numbers.  The program computes in f32; the model computes in fixed      *)
(* point.  A logical coordinate or size is an integer number of tenths of  *)
(* a logical pixel (FX per pixel), a window scale factor is an integer     *)
(* number of quarters (SCALE_DEN per 1.0), an angle is an integer number   *)
(* of tenths of a degree (DEG per degree), a Duration is an integer number *)
(* of milliseconds, and a sine is an integer number of thousandths.  The   *)
(* window sizes, positions and sizes the model uses are exact in these     *)
(* units; f32 rounding is not modelled.                                    *)
(*                                                                         *)
(* Left out: star_field and the sounds (no update reads them back), the    *)
(* images, and a particle's random velocity and size (only drawn).         *)
(***************************************************************************)
EXTENDS Integers, Sequences, FiniteSets, TLC

VARIABLES
    window_size,       \* MainState.window_size : WindowSize
    player,            \* MainState.player : GameObject
    bullets,           \* MainState.bullets : Vec<GameObject>
    enemies,           \* MainState.enemies : Vec<GameObject>
    score,             \* MainState.score : i32
    spawn_timer,       \* MainState.spawn_timer : Duration (ms)
    game_over,         \* MainState.game_over
    paused,            \* MainState.paused
    shoot_cooldown,    \* MainState.shoot_cooldown : Duration (ms)
    particles,         \* MainState.particles.particles : Vec<Particle>
    missile_cooldown,  \* MainState.missile_cooldown : Duration (ms)
    missile_ammo,      \* MainState.missile_ammo : i32
    ammo_spawn_timer,  \* MainState.ammo_spawn_timer : Duration (ms)
    ammo_items,        \* MainState.ammo_items : Vec<GameObject>
    p_key_pressed,     \* MainState.p_key_pressed
    has_spread_shot,   \* MainState.has_spread_shot
    frame,             \* history: what the last call of update read and did
    nframes,           \* history: number of calls of update so far
    probe              \* history: the last direct call of intersects / of the pool

vars ==
    << window_size, player, bullets, enemies, score, spawn_timer, game_over,
       paused, shoot_cooldown, particles, missile_cooldown, missile_ammo,
       ammo_spawn_timer, ammo_items, p_key_pressed, has_spread_shot,
       frame, nframes, probe >>

----------------------------------------------------------------------------
(* Units of the fixed-point arithmetic. *)

FX == 10
SCALE_DEN == 4
DEG == 10

(* Program constants. *)

BASE_WINDOW_WIDTH == 1024
BASE_WINDOW_HEIGHT == 768
PARTICLE_LIFETIME == 500
EXPLOSION_PARTICLES == 10
MAX_PARTICLES == 1000
SHOOT_COOLDOWN == 250
MISSILE_COOLDOWN == 1000
SPAWN_INTERVAL == 1000
AMMO_SPAWN_INTERVAL == 15000
MISSILE_SPEED == 4
INITIAL_MISSILE_AMMO == 5
AMMO_PER_PICKUP == 3

Min(a, b) == IF a < b THEN a ELSE b
Max(a, b) == IF a > b THEN a ELSE b
Abs(a) == IF a < 0 THEN -a ELSE a
clamp(v, lo, hi) == IF v < lo THEN lo ELSE IF v > hi THEN hi ELSE v
saturating_sub(a, b) == IF a > b THEN a - b ELSE 0

\* Division of a fixed-point product, rounding toward zero.
Quot(a, b) == IF a >= 0 THEN a \div b ELSE -((-a) \div b)

Vec2(x, y) == [x |-> x, y |-> y]
Vec2_ZERO == Vec2(0, 0)
Px(n) == n * FX

----------------------------------------------------------------------------
(* WindowSize *)

WindowSize_new(width, height) ==
    [ width   |-> width,
      height  |-> height,
      scale_x |-> (width * SCALE_DEN) \div BASE_WINDOW_WIDTH,
      scale_y |-> (height * SCALE_DEN) \div BASE_WINDOW_HEIGHT ]

\* A scaled vector is in units of 1 / (FX * SCALE_DEN) physical pixels.
scale_vec2(ws, vec) == Vec2(vec.x * ws.scale_x, vec.y * ws.scale_y)

\* PLAYER_SPEED_RATIO * width, BULLET_SPEED_RATIO * height and
\* ENEMY_SPEED_RATIO * height, in tenths of a logical pixel per frame.
player_speed(ws) == (5 * FX * ws.width) \div BASE_WINDOW_WIDTH
bullet_speed(ws) == (8 * FX * ws.height) \div BASE_WINDOW_HEIGHT
enemy_speed(ws) == (2 * FX * ws.height) \div BASE_WINDOW_HEIGHT

----------------------------------------------------------------------------
(* Trigonometry on whole degrees, in thousandths. *)

SinTable ==
    << 0, 17, 35, 52, 70, 87, 105, 122, 139, 156, 174, 191, 208, 225, 242,
       259, 276, 292, 309, 326, 342, 358, 375, 391, 407, 423, 438, 454, 469,
       485, 500, 515, 530, 545, 559, 574, 588, 602, 616, 629, 643, 656, 669,
       682, 695, 707, 719, 731, 743, 755, 766, 777, 788, 799, 809, 819, 829,
       839, 848, 857, 866, 875, 883, 891, 899, 906, 914, 921, 927, 934, 940,
       946, 951, 956, 961, 966, 970, 974, 978, 982, 985, 988, 990, 993, 995,
       996, 998, 999, 999, 1000, 1000 >>

\* sin of d whole degrees, any integer d.
SinDeg(d) ==
    LET a == d % 360
    IN  IF a <= 90 THEN SinTable[a + 1]
        ELSE IF a <= 180 THEN SinTable[180 - a + 1]
        ELSE IF a <= 270 THEN -SinTable[a - 180 + 1]
        ELSE -SinTable[360 - a + 1]

CosDeg(d) == SinDeg(d + 90)

\* The whole degree nearest to an angle in tenths of a degree.
RoundDeg(rot) == (rot + 5) \div DEG

\* atan(ay / ax) in whole degrees, rounded down, for ax, ay >= 0 not both 0:
\* the number of whole degrees d in 1..90 with tan(d) <= ay / ax.
atan_degrees(ay, ax) ==
    Cardinality({ d \in 1..90 : SinDeg(d) * ax <= CosDeg(d) * ay })

\* y.atan2(x) in tenths of a degree, in (-180, 180] degrees.
atan2(y, x) ==
    IF x = 0 /\ y = 0 THEN 0
    ELSE LET q == atan_degrees(Abs(y), Abs(x))
             half == IF x >= 0 THEN q ELSE 180 - q
         IN  DEG * (IF y >= 0 THEN half ELSE -half)

----------------------------------------------------------------------------
(* GameObject *)

GameObjectType ==
    { "Player", "Bullet", "Enemy", "GuidedMissile", "MissileAmmo",
      "SpreadShot", "SpreadAmmo" }

\* Option<usize>::None of GameObject.target.
None == -1

\* GameObject::new.  locked is history, not a field of the struct: for a
\* missile, where the enemy it was launched at is now, had that enemy stayed.
GameObject_new(x, y, width, height, object_type) ==
    [ pos         |-> Vec2(x, y),
      base_size   |-> Vec2(width, height),
      speed       |-> Vec2_ZERO,
      rotation    |-> IF object_type = "Enemy" THEN 180 * DEG ELSE 0,
      object_type |-> object_type,
      target      |-> None,
      locked      |-> None ]

\* The radius table of draw_collision_circle: one radius per kind.
collision_circle_radius(obj) ==
    CASE obj.object_type = "Bullet"        -> (obj.base_size.x * 8) \div 10
      [] obj.object_type = "Enemy"         -> (obj.base_size.x * 45) \div 100
      [] obj.object_type = "Player"        -> (obj.base_size.x * 4) \div 10
      [] obj.object_type = "GuidedMissile" -> obj.base_size.x
      [] obj.object_type = "MissileAmmo"   -> (obj.base_size.x * 6) \div 10
      [] obj.object_type = "SpreadShot"    -> (obj.base_size.x * 8) \div 10
      [] obj.object_type = "SpreadAmmo"    -> (obj.base_size.x * 6) \div 10

\* The (self_radius, other_radius) match of intersects.
intersects_radii(self, other) ==
    LET st == self.object_type
        ot == other.object_type
        smin == Min(self.base_size.x, self.base_size.y)
    IN  CASE st \in {"Bullet", "SpreadShot"} /\ ot = "Enemy" ->
                << (self.base_size.x * 8) \div 10, (other.base_size.x * 45) \div 100 >>
          [] st = "Enemy" /\ ot \in {"Bullet", "SpreadShot"} ->
                << (self.base_size.x * 45) \div 100, (other.base_size.x * 8) \div 10 >>
          [] \/ st = "Player" /\ ot \in {"MissileAmmo", "SpreadAmmo"}
             \/ st \in {"MissileAmmo", "SpreadAmmo"} /\ ot = "Player" ->
                << (smin * 6) \div 10, (smin * 6) \div 10 >>
          [] \/ st = "Player" /\ ot = "Enemy"
             \/ st = "Enemy" /\ ot = "Player" ->
                << (smin * 4) \div 10, (smin * 4) \div 10 >>
          [] OTHER ->
                << (smin * 4) \div 10, (smin * 4) \div 10 >>

\* distance < scaled_self_radius + scaled_other_radius, on the scaled centres.
\* Both sides are non-negative, so the comparison is made on the squares; the
\* two leading conjuncts only keep the squares small.
intersects(self, other, ws) ==
    LET r == intersects_radii(self, other)
        m == Min(ws.scale_x, ws.scale_y)
        scaled_self_center == scale_vec2(ws, self.pos)
        scaled_other_center == scale_vec2(ws, other.pos)
        scaled_self_radius == r[1] * m
        scaled_other_radius == r[2] * m
        reach == scaled_self_radius + scaled_other_radius
        ddx == Abs(scaled_self_center.x - scaled_other_center.x)
        ddy == Abs(scaled_self_center.y - scaled_other_center.y)
    IN  /\ ddx < reach
        /\ ddy < reach
        /\ ddx * ddx + ddy * ddy < reach * reach

\* The speed of a missile heading at rotation (l.156-157).
heading_speed(rotation, ws) ==
    LET d == RoundDeg(rotation)
    IN  Vec2(Quot(CosDeg(d) * MISSILE_SPEED * FX * ws.scale_x, 1000 * SCALE_DEN),
             Quot(SinDeg(d) * MISSILE_SPEED * FX * ws.scale_y, 1000 * SCALE_DEN))

\* update_guided_missile: steer toward enemies[target], when there is one.
update_guided_missile(self, enemy_list, ws) ==
    IF self.target = None \/ self.target >= Len(enemy_list) THEN self
    ELSE
        LET target == enemy_list[self.target + 1]
            dirx == target.pos.x - self.pos.x
            diry == target.pos.y - self.pos.y
        IN  IF dirx = 0 /\ diry = 0 THEN self
            ELSE
                LET target_angle == atan2(diry, dirx)
                    raw == target_angle - self.rotation
                    angle_diff ==
                        IF raw > 180 * DEG THEN raw - 360 * DEG
                        ELSE IF raw < -180 * DEG THEN raw + 360 * DEG
                        ELSE raw
                    rotation == self.rotation + Quot(angle_diff, 10)
                IN  [ self EXCEPT
                        !.rotation = rotation,
                        !.speed = heading_speed(rotation, ws) ]

----------------------------------------------------------------------------
(* Particle and ParticleSystem *)

Color_new(r, g, b, a) == << r, g, b, a >>
YELLOW_HALF == Color_new(10, 10, 0, 5)
ORANGE_HALF == Color_new(10, 5, 0, 5)
ORANGE == Color_new(10, 5, 0, 10)
CYAN == Color_new(0, 10, 10, 10)

\* Particle::new; pos is the position the particle was created at.
Particle_new(pos, color) ==
    [ pos |-> pos, color |-> color, lifetime |-> PARTICLE_LIFETIME ]

\* Particle::update: only the lifetime is kept.
Particle_update(particle, dt) ==
    [ particle EXCEPT !.lifetime = @ - dt ]

\* ParticleSystem::update: retain_mut(update; lifetime > 0).
ParticleSystem_update(pool, dt) ==
    LET updated == [ i \in 1..Len(pool) |-> Particle_update(pool[i], dt) ]
        alive(particle) == particle.lifetime > 0
    IN  SelectSeq(updated, alive)

\* A burst size that ignores the room left in the pool.
uncapped_particles_to_add(pool) == EXPLOSION_PARTICLES

\* ParticleSystem::add_explosion: the number of particles one burst adds.
particles_to_add(pool) ==
    LET available_slots == saturating_sub(MAX_PARTICLES, Len(pool))
    IN  Min(EXPLOSION_PARTICLES, available_slots)

\* A burst that makes room by dropping the oldest particles of a full pool.
add_explosion_evicting(pool, pos, color) ==
    LET fresh == [ i \in 1..EXPLOSION_PARTICLES |-> Particle_new(pos, color) ]
        room == MAX_PARTICLES - EXPLOSION_PARTICLES
    IN  (IF Len(pool) > room THEN SubSeq(pool, Len(pool) - room + 1, Len(pool)) ELSE pool)
            \o fresh

\* ParticleSystem::add_explosion.
add_explosion(pool, pos, color) ==
    pool \o [ i \in 1..particles_to_add(pool) |-> Particle_new(pos, color) ]

----------------------------------------------------------------------------
(* MainState *)

\* The player GameObject::new of MainState::new and of MainState::reset.
Player_new ==
    GameObject_new(Px(BASE_WINDOW_WIDTH) \div 2, Px(BASE_WINDOW_HEIGHT) - Px(30),
                   Px(50), Px(60), "Player")

\* What update has recorded of a frame before it has read anything.
NoFrame ==
    [ keys               |-> {},
      prev_keys          |-> {},
      dt                 |-> 0,
      game_over_at_start |-> FALSE,
      paused_at_start    |-> FALSE,
      toggled            |-> FALSE,
      restarted          |-> FALSE,
      played             |-> FALSE,
      score_at_start     |-> 0,
      ammo_at_start      |-> 0,
      pickup_items       |-> << >>,
      cooldown_after_sub |-> 0,
      has_spread_at_shot |-> FALSE,
      shots              |-> 0,
      launched           |-> 0,
      launch_target      |-> None,
      launch_from        |-> Vec2_ZERO,
      launch_enemies     |-> << >>,
      steered            |-> << >>,
      before_move        |-> << >>,
      kept_from          |-> {},
      enemy_hit_player   |-> FALSE,
      dropped            |-> 0,
      scan_bullets       |-> << >>,
      scan_enemies       |-> << >>,
      pairs              |-> << >>,
      bursts             |-> << >>,
      collected          |-> << >>,
      collected_second   |-> << >> ]

\* MainState::new.
MainState_new ==
    [ window_size      |-> WindowSize_new(BASE_WINDOW_WIDTH, BASE_WINDOW_HEIGHT),
      player           |-> Player_new,
      bullets          |-> << >>,
      enemies          |-> << >>,
      score            |-> 0,
      spawn_timer      |-> 0,
      game_over        |-> FALSE,
      paused           |-> FALSE,
      shoot_cooldown   |-> 0,
      particles        |-> << >>,
      missile_cooldown |-> 0,
      missile_ammo     |-> INITIAL_MISSILE_AMMO,
      ammo_spawn_timer |-> 0,
      ammo_items       |-> << >>,
      p_key_pressed    |-> FALSE,
      has_spread_shot  |-> FALSE,
      frame            |-> NoFrame ]

\* A reset that leaves the score and the pause flag as they are.
reset_keeping_score(s) ==
    [ s EXCEPT
        !.player = Player_new,
        !.bullets = << >>,
        !.enemies = << >>,
        !.ammo_items = << >>,
        !.game_over = FALSE,
        !.spawn_timer = 0,
        !.shoot_cooldown = 0,
        !.missile_cooldown = 0,
        !.missile_ammo = INITIAL_MISSILE_AMMO,
        !.ammo_spawn_timer = 0,
        !.p_key_pressed = FALSE ]

\* MainState::reset.
reset(s) ==
    [ s EXCEPT
        !.player = Player_new,
        !.bullets = << >>,
        !.enemies = << >>,
        !.ammo_items = << >>,
        !.score = 0,
        !.game_over = FALSE,
        !.paused = FALSE,
        !.spawn_timer = 0,
        !.shoot_cooldown = 0,
        !.missile_cooldown = 0,
        !.missile_ammo = INITIAL_MISSILE_AMMO,
        !.ammo_spawn_timer = 0,
        !.p_key_pressed = FALSE,
        !.has_spread_shot = FALSE ]

\* One call of particles.add_explosion from update, recorded in the frame.
burst(s, pos, color) ==
    [ s EXCEPT
        !.particles = add_explosion(@, pos, color),
        !.frame.bursts = Append(@, [pos |-> pos, color |-> color]) ]

\* MainState::spawn_spread_ammo; x is rng.gen_range(0.0..BASE_WINDOW_WIDTH - 20.0).
spawn_spread_ammo(s, x) ==
    [ s EXCEPT !.ammo_items =
        Append(@, GameObject_new(x, -Px(30), Px(25), Px(25), "SpreadAmmo")) ]

\* MainState::spawn_missile_ammo; x is rng.gen_range(0.0..BASE_WINDOW_WIDTH - 20.0).
spawn_missile_ammo(s, x) ==
    [ s EXCEPT !.ammo_items =
        Append(@, GameObject_new(x, -Px(30), Px(20), Px(20), "MissileAmmo")) ]

\* MainState::spawn_enemy; x is rng.gen_range(0.0..BASE_WINDOW_WIDTH - 40.0).
spawn_enemy(s, x) ==
    [ s EXCEPT !.enemies =
        Append(@, GameObject_new(x, -Px(50), Px(40), Px(40), "Enemy")) ]

\* The square of a.distance(b).
distance_squared(a, b) ==
    (a.x - b.x) * (a.x - b.x) + (a.y - b.y) * (a.y - b.y)

\* The loop of launch_missile: the 0-based index of the first enemy at the
\* least distance from player_pos (min_distance starts at f32::MAX).
RECURSIVE closest_enemy_from(_, _, _, _)
closest_enemy_from(enemy_list, player_pos, idx, closest) ==
    IF idx >= Len(enemy_list) THEN closest
    ELSE LET distance == distance_squared(enemy_list[idx + 1].pos, player_pos)
             min_distance == distance_squared(enemy_list[closest + 1].pos, player_pos)
         IN  closest_enemy_from(enemy_list, player_pos, idx + 1,
                                IF distance < min_distance THEN idx ELSE closest)

\* A search that always settles on the first enemy.
first_enemy(enemy_list, player_pos) == 0

closest_enemy(enemy_list, player_pos) ==
    closest_enemy_from(enemy_list, player_pos, 1, 0)

\* A launch that does not look at the ammo.
launch_missile_unguarded(s) ==
    IF s.enemies = << >> THEN s
    ELSE [ s EXCEPT
             !.bullets = Append(@, [ GameObject_new(s.player.pos.x,
                                         s.player.pos.y - s.player.base_size.y \div 2,
                                         Px(8), Px(24), "GuidedMissile")
                                     EXCEPT !.target = 0, !.locked = s.enemies[1].pos ]),
             !.missile_ammo = @ - 1,
             !.frame.launched = @ + 1,
             !.frame.launch_target = 0,
             !.frame.launch_from = s.player.pos,
             !.frame.launch_enemies = s.enemies ]

\* MainState::launch_missile.
launch_missile(s) ==
    IF s.enemies = << >> \/ s.missile_ammo <= 0 THEN s
    ELSE
        LET missile ==
                [ GameObject_new(s.player.pos.x,
                                 s.player.pos.y - s.player.base_size.y \div 2,
                                 Px(8), Px(24), "GuidedMissile")
                  EXCEPT !.target = closest_enemy(s.enemies, s.player.pos),
                         !.locked =
                            s.enemies[closest_enemy(s.enemies, s.player.pos) + 1].pos ]
        IN  [ s EXCEPT
                !.bullets = Append(@, missile),
                !.missile_ammo = @ - 1,
                !.frame.launched = @ + 1,
                !.frame.launch_target = missile.target,
                !.frame.launch_from = s.player.pos,
                !.frame.launch_enemies = s.enemies ]

\* The five bullets of the spread branch of shoot, for the angles in degrees.
RECURSIVE spread_bullets(_, _, _)
spread_bullets(angles, bullet_pos, ws) ==
    IF angles = << >> THEN << >>
    ELSE
        LET angle == Head(angles)
            bullet ==
                [ GameObject_new(bullet_pos.x, bullet_pos.y, Px(5), Px(20), "SpreadShot")
                  EXCEPT
                    !.speed = Vec2(Quot(SinDeg(angle) * bullet_speed(ws), 1000),
                                   Quot(-CosDeg(angle) * bullet_speed(ws), 1000)),
                    !.rotation = angle * DEG ]
        IN  << bullet >> \o spread_bullets(Tail(angles), bullet_pos, ws)

\* The bullets shoot pushes.
shoot_bullets(s) ==
    LET center_x == s.player.pos.x
        top_y == s.player.pos.y - s.player.base_size.y \div 2
        bullet_pos == Vec2(center_x, top_y)
    IN  IF s.has_spread_shot
        THEN spread_bullets(<< -30, -15, 0, 15, 30 >>, bullet_pos, s.window_size)
        ELSE << GameObject_new(bullet_pos.x - 25, bullet_pos.y, Px(5), Px(20), "Bullet") >>

\* MainState::shoot.
shoot(s) ==
    LET center_x == s.player.pos.x
        top_y == s.player.pos.y - s.player.base_size.y \div 2
        bullet_pos == Vec2(center_x, top_y)
        lit == burst(s, bullet_pos,
                     IF s.has_spread_shot THEN ORANGE_HALF ELSE YELLOW_HALF)
        pushed == shoot_bullets(s)
    IN  [ lit EXCEPT
            !.bullets = @ \o pushed,
            !.frame.has_spread_at_shot = s.has_spread_shot,
            !.frame.shots = @ + Len(pushed) ]

\* MainState::update_window_size: the window's inner size, read every frame.
update_window_size(s, in) ==
    [ s EXCEPT !.window_size = WindowSize_new(in.width, in.height) ]

----------------------------------------------------------------------------
(* EventHandler::update, step by step.  Each step takes the MainState s it  *)
(* finds and the frame's inputs in, and gives the MainState it leaves:      *)
(*   in.keys    the keys keyboard::is_key_pressed reports down this frame   *)
(*              (Left, Right, Up, Down stand for the arrow or its WASD key) *)
(*   in.dt      ctx.time.delta(), ms                                        *)
(*   in.width, in.height   the window's inner size                          *)
(*   in.enemy_x, in.ammo_x, in.ammo_coin   what the random generator gives  *)

is_key_pressed(in, key) == key \in in.keys

\* The pause key, edge-triggered on p_key_pressed.
pause_key(s, in) ==
    IF is_key_pressed(in, "P")
    THEN IF ~s.p_key_pressed
         THEN [ s EXCEPT !.paused = ~@, !.p_key_pressed = TRUE, !.frame.toggled = TRUE ]
         ELSE s
    ELSE [ s EXCEPT !.p_key_pressed = FALSE ]

\* Player movement and clamp.
move_player(s, in) ==
    LET speed == player_speed(s.window_size)
        dx == (IF is_key_pressed(in, "Right") THEN speed ELSE 0)
              - (IF is_key_pressed(in, "Left") THEN speed ELSE 0)
        dy == (IF is_key_pressed(in, "Down") THEN speed ELSE 0)
              - (IF is_key_pressed(in, "Up") THEN speed ELSE 0)
    IN  [ s EXCEPT
            !.player.pos.x =
                clamp(@ + dx, 0, Px(BASE_WINDOW_WIDTH) - s.player.base_size.x),
            !.player.pos.y =
                clamp(@ + dy, 0, Px(BASE_WINDOW_HEIGHT) - s.player.base_size.y) ]

\* A primary fire that shoots whenever Space is down, cooldown or not.
fire_ignoring_cooldown(s, in) ==
    LET cooled == [ s EXCEPT
                      !.shoot_cooldown = saturating_sub(@, in.dt),
                      !.frame.cooldown_after_sub = saturating_sub(s.shoot_cooldown, in.dt) ]
    IN  IF is_key_pressed(in, "Space")
        THEN [ shoot(cooled) EXCEPT !.shoot_cooldown = SHOOT_COOLDOWN ]
        ELSE cooled

\* Primary fire: the cooldown, then shoot when Space is down and it is zero.
fire(s, in) ==
    LET cooled == [ s EXCEPT
                      !.shoot_cooldown = saturating_sub(@, in.dt),
                      !.frame.cooldown_after_sub = saturating_sub(s.shoot_cooldown, in.dt) ]
    IN  IF is_key_pressed(in, "Space") /\ cooled.shoot_cooldown = 0
        THEN [ shoot(cooled) EXCEPT !.shoot_cooldown = SHOOT_COOLDOWN ]
        ELSE cooled

\* Missile launch: the cooldown, then launch_missile when X is down and it is zero.
fire_missile(s, in) ==
    LET cooled == [ s EXCEPT !.missile_cooldown = saturating_sub(@, in.dt) ]
    IN  IF is_key_pressed(in, "X") /\ cooled.missile_cooldown = 0
        THEN [ launch_missile(cooled) EXCEPT !.missile_cooldown = MISSILE_COOLDOWN ]
        ELSE cooled

\* One bullet's movement.
move_bullet(bullet, enemy_list, ws) ==
    CASE bullet.object_type = "Bullet" ->
            [ bullet EXCEPT !.pos.y = @ - bullet_speed(ws) ]
      [] bullet.object_type = "SpreadShot" ->
            [ bullet EXCEPT !.pos.x = @ + bullet.speed.x, !.pos.y = @ + bullet.speed.y ]
      [] bullet.object_type = "GuidedMissile" ->
            LET steered == update_guided_missile(bullet, enemy_list, ws)
            IN  [ steered EXCEPT !.pos.x = @ + steered.speed.x,
                                 !.pos.y = @ + steered.speed.y ]
      [] OTHER -> bullet

\* The enemy a missile's update_guided_missile reads, with the missile's
\* locked enemy; nothing when the target index is out of the list.
target_read(bullet, enemy_list) ==
    IF /\ bullet.object_type = "GuidedMissile"
       /\ bullet.target # None
       /\ bullet.target < Len(enemy_list)
    THEN << [ locked |-> bullet.locked, read |-> enemy_list[bullet.target + 1].pos ] >>
    ELSE << >>

RECURSIVE targets_read(_, _)
targets_read(bullet_list, enemy_list) ==
    IF bullet_list = << >> THEN << >>
    ELSE target_read(Head(bullet_list), enemy_list)
            \o targets_read(Tail(bullet_list), enemy_list)

move_bullets(s) ==
    [ s EXCEPT
        !.bullets =
            [ i \in 1..Len(s.bullets) |-> move_bullet(s.bullets[i], s.enemies, s.window_size) ],
        !.frame.steered = targets_read(s.bullets, s.enemies),
        !.frame.before_move = s.bullets ]

\* The pickup spawn timer.
spawn_ammo(s, in) ==
    LET timer == s.ammo_spawn_timer + in.dt
    IN  IF timer >= AMMO_SPAWN_INTERVAL
        THEN [ (IF in.ammo_coin THEN spawn_missile_ammo(s, in.ammo_x)
                ELSE spawn_spread_ammo(s, in.ammo_x))
               EXCEPT !.ammo_spawn_timer = 0 ]
        ELSE [ s EXCEPT !.ammo_spawn_timer = timer ]

\* bullets.retain(pos.y > -base_size.y)
retain_bullets(list) ==
    LET on_screen(bullet) == bullet.pos.y > -bullet.base_size.y
    IN  SelectSeq(list, on_screen)

\* The retain pass over the moved bullets; kept_from is the set of the kept
\* bullets as they were before this frame moved them.
retain_pass(s) ==
    [ s EXCEPT
        !.bullets = retain_bullets(@),
        !.frame.kept_from =
            { s.frame.before_move[i] :
                i \in { j \in 1..Len(s.bullets) : retain_bullets(<< s.bullets[j] >>) # << >> } } ]

\* A retain that keeps everything.
retain_all(list) == list

\* retain(pos.y < BASE_WINDOW_HEIGHT), for the enemies and for the pickups.
retain_above_bottom(list) ==
    LET above(obj) == obj.pos.y < Px(BASE_WINDOW_HEIGHT)
    IN  SelectSeq(list, above)

\* An enemy spawned in every frame.
spawn_enemies_always(s, in) ==
    [ spawn_enemy(s, in.enemy_x) EXCEPT !.spawn_timer = 0 ]

\* The enemy spawn timer.
spawn_enemies(s, in) ==
    LET timer == s.spawn_timer + in.dt
    IN  IF timer >= SPAWN_INTERVAL
        THEN [ spawn_enemy(s, in.enemy_x) EXCEPT !.spawn_timer = 0 ]
        ELSE [ s EXCEPT !.spawn_timer = timer ]

\* The enemy loop's test on one moved enemy.
enemy_overlaps_player(enemy, s) == intersects(enemy, s.player, s.window_size)

\* An enemy loop that never sets game_over.
latch_game_over_never(s, hit) == s

\* What the enemy loop does to game_over, given that some enemy overlaps.
latch_game_over(s, hit) == IF hit THEN [ s EXCEPT !.game_over = TRUE ] ELSE s

\* Enemy movement, the game-over test, and the retain.
move_enemies(s) ==
    LET moved == [ i \in 1..Len(s.enemies) |->
                     [ s.enemies[i] EXCEPT !.pos.y = @ + enemy_speed(s.window_size) ] ]
        hit == \E i \in 1..Len(moved) : enemy_overlaps_player(moved[i], s)
        latched == latch_game_over(s, hit)
        follow(bullet) ==
            IF bullet.target = None THEN bullet
            ELSE [ bullet EXCEPT !.locked.y = @ + enemy_speed(s.window_size) ]
    IN  [ latched EXCEPT
            !.enemies = retain_above_bottom(moved),
            !.frame.dropped = Len(moved) - Len(retain_above_bottom(moved)),
            !.bullets = [ i \in 1..Len(s.bullets) |-> follow(s.bullets[i]) ],
            !.frame.enemy_hit_player = hit ]

----------------------------------------------------------------------------
(* The bullet x enemy scan and the removal of what it marked. *)

\* A score of 10 for every hit, missiles included.
flat_score(bullet) == 10

\* A hit that costs points.
penalty_score(bullet) == -10

\* The score of one hit.
hit_score(bullet) == IF bullet.object_type = "GuidedMissile" THEN 20 ELSE 10

\* A skip test that never skips.
never_destroyed(acc, bullet_idx, enemy_idx) == FALSE

\* The scan's skip test: the bullet or the enemy is already marked destroyed.
already_destroyed(acc, bullet_idx, enemy_idx) ==
    bullet_idx \in acc.destroyed_bullets \/ enemy_idx \in acc.destroyed_enemies

\* Where the scan puts the explosion of a destroyed enemy.
explosion_position(enemy) ==
    Vec2(enemy.pos.x + enemy.base_size.x \div 2, enemy.pos.y + enemy.base_size.y \div 2)

NoHits ==
    [ destroyed_bullets   |-> {},
      destroyed_enemies   |-> {},
      pairs               |-> << >>,
      gained              |-> 0,
      explosion_positions |-> << >> ]

\* The nested loops, bullets outside and enemies inside; k counts the pairs
\* visited, indices are 0-based as in the source.
RECURSIVE scan_from(_, _, _, _, _)
scan_from(bullet_list, enemy_list, ws, k, acc) ==
    IF k >= Len(bullet_list) * Len(enemy_list) THEN acc
    ELSE
        LET bullet_idx == k \div Len(enemy_list)
            enemy_idx == k % Len(enemy_list)
            bullet == bullet_list[bullet_idx + 1]
            enemy == enemy_list[enemy_idx + 1]
        IN  IF ~already_destroyed(acc, bullet_idx, enemy_idx)
               /\ intersects(bullet, enemy, ws)
            THEN scan_from(bullet_list, enemy_list, ws, k + 1,
                    [ destroyed_bullets   |-> acc.destroyed_bullets \cup {bullet_idx},
                      destroyed_enemies   |-> acc.destroyed_enemies \cup {enemy_idx},
                      pairs               |-> Append(acc.pairs, << bullet_idx, enemy_idx >>),
                      gained              |-> acc.gained + hit_score(bullet),
                      explosion_positions |->
                          Append(acc.explosion_positions,
                                 [pos |-> explosion_position(enemy), color |-> ORANGE]) ])
            ELSE scan_from(bullet_list, enemy_list, ws, k + 1, acc)

collision_scan(bullet_list, enemy_list, ws) ==
    scan_from(bullet_list, enemy_list, ws, 0, NoHits)

\* The collected index set in ascending order.
RECURSIVE sort_ascending(_)
sort_ascending(indices) ==
    IF indices = {} THEN << >>
    ELSE LET low == CHOOSE i \in indices : \A j \in indices : i <= j
         IN  << low >> \o sort_ascending(indices \ {low})

\* sort_unstable_by(|a, b| b.cmp(a)) of the collected index set.
RECURSIVE sort_descending(_)
sort_descending(indices) ==
    IF indices = {} THEN << >>
    ELSE LET top == CHOOSE i \in indices : \A j \in indices : j <= i
         IN  << top >> \o sort_descending(indices \ {top})

\* Vec::remove(idx), idx 0-based.
remove_at(list, idx) ==
    [ i \in 1..(Len(list) - 1) |-> IF i <= idx THEN list[i] ELSE list[i + 1] ]

\* for idx in to_remove { if idx < list.len() { list.remove(idx); } }
RECURSIVE remove_marked(_, _)
remove_marked(list, to_remove) ==
    IF to_remove = << >> THEN list
    ELSE LET idx == Head(to_remove)
         IN  remove_marked(IF idx < Len(list) THEN remove_at(list, idx) ELSE list,
                           Tail(to_remove))

\* for (pos, color) in explosion_positions { add_explosion }
RECURSIVE explode(_, _)
explode(s, positions) ==
    IF positions = << >> THEN s
    ELSE explode(burst(s, Head(positions).pos, Head(positions).color), Tail(positions))

\* The scan, the score, the removal and the explosions.
resolve_collisions(s) ==
    LET hits == collision_scan(s.bullets, s.enemies, s.window_size)
        scored == [ s EXCEPT
                      !.score = @ + hits.gained,
                      !.frame.scan_bullets = s.bullets,
                      !.frame.scan_enemies = s.enemies,
                      !.frame.pairs = hits.pairs,
                      !.bullets = remove_marked(@, sort_descending(hits.destroyed_bullets)),
                      !.enemies = remove_marked(@, sort_descending(hits.destroyed_enemies)) ]
    IN  explode(scored, hits.explosion_positions)

----------------------------------------------------------------------------
(* Particles and pickups. *)

update_particles(s, in) ==
    [ s EXCEPT !.particles = ParticleSystem_update(@, in.dt) ]

move_ammo(s) ==
    [ s EXCEPT !.ammo_items =
        retain_above_bottom(
            [ i \in 1..Len(s.ammo_items) |->
                [ s.ammo_items[i] EXCEPT !.pos.y = @ + enemy_speed(s.window_size) ] ]) ]

\* The first pickup loop: every overlapping pickup gives missiles and a cyan burst.
RECURSIVE collect_first(_, _)
collect_first(s, idx) ==
    IF idx >= Len(s.ammo_items) THEN s
    ELSE
        LET ammo == s.ammo_items[idx + 1]
        IN  IF intersects(ammo, s.player, s.window_size)
            THEN collect_first(
                    burst([ s EXCEPT !.frame.collected = Append(@, idx),
                                     !.missile_ammo = @ + AMMO_PER_PICKUP ],
                          ammo.pos, CYAN),
                    idx + 1)
            ELSE collect_first(s, idx + 1)

\* A removal that leaves the collected pickups in the list.
keep_collected(list, collected) == list

\* for idx in collected_ammo.iter().rev() { ammo_items.remove(*idx) }
RECURSIVE remove_collected(_, _)
remove_collected(list, collected) ==
    IF collected = << >> THEN list
    ELSE remove_collected(remove_at(list, collected[Len(collected)]),
                          SubSeq(collected, 1, Len(collected) - 1))

\* The second pickup loop, by kind; it removes nothing.
RECURSIVE collect_second(_, _)
collect_second(s, idx) ==
    IF idx >= Len(s.ammo_items) THEN s
    ELSE
        LET ammo == s.ammo_items[idx + 1]
            noted == [ s EXCEPT !.frame.collected_second = Append(@, idx) ]
        IN  IF intersects(ammo, s.player, s.window_size)
            THEN collect_second(
                    CASE ammo.object_type = "SpreadAmmo" ->
                            burst([ noted EXCEPT !.has_spread_shot = TRUE ], ammo.pos, ORANGE)
                      [] ammo.object_type = "MissileAmmo" ->
                            burst([ noted EXCEPT !.missile_ammo = @ + AMMO_PER_PICKUP ],
                                  ammo.pos, CYAN)
                      [] OTHER -> noted,
                    idx + 1)
            ELSE collect_second(s, idx + 1)

collect_pickups(s) ==
    LET first == collect_first([ s EXCEPT !.frame.pickup_items = s.ammo_items ], 0)
        removed == [ first EXCEPT
                       !.ammo_items = remove_collected(@, first.frame.collected) ]
    IN  collect_second(removed, 0)

----------------------------------------------------------------------------
(* EventHandler::update *)

\* The part of update after the two early returns.
play(s, in) ==
    LET s1 == move_player([ s EXCEPT !.frame.played = TRUE ], in)
        s2 == fire(s1, in)
        s3 == fire_missile(s2, in)
        s4 == move_bullets(s3)
        s5 == spawn_ammo(s4, in)
        s6 == retain_pass(s5)
        s7 == spawn_enemies(s6, in)
        s8 == move_enemies(s7)
        s9 == resolve_collisions(s8)
        s10 == update_particles(s9, in)
        s11 == move_ammo(s10)
    IN  collect_pickups(s11)

\* A restart branch that resets whatever the keys.
restart_always(s, in) == [ reset(s) EXCEPT !.frame.restarted = TRUE ]

\* The restart branch: reset when Space is down.
restart(s, in) ==
    IF is_key_pressed(in, "Space")
    THEN [ reset(s) EXCEPT !.frame.restarted = TRUE ]
    ELSE s

update(s, in) ==
    LET begun == [ s EXCEPT !.frame =
                     [ NoFrame EXCEPT
                         !.keys = in.keys,
                         !.prev_keys = s.frame.keys,
                         !.dt = in.dt,
                         !.game_over_at_start = s.game_over,
                         !.paused_at_start = s.paused,
                         !.score_at_start = s.score,
                         !.ammo_at_start = s.missile_ammo ] ]
        sized == update_window_size(begun, in)
        keyed == pause_key(sized, in)
    IN  IF keyed.game_over THEN restart(keyed, in)
        ELSE IF keyed.paused THEN keyed
        ELSE play(keyed, in)

----------------------------------------------------------------------------
(* The state machine: one action, a call of update by the event loop. *)

State ==
    [ window_size      |-> window_size,
      player           |-> player,
      bullets          |-> bullets,
      enemies          |-> enemies,
      score            |-> score,
      spawn_timer      |-> spawn_timer,
      game_over        |-> game_over,
      paused           |-> paused,
      shoot_cooldown   |-> shoot_cooldown,
      particles        |-> particles,
      missile_cooldown |-> missile_cooldown,
      missile_ammo     |-> missile_ammo,
      ammo_spawn_timer |-> ammo_spawn_timer,
      ammo_items       |-> ammo_items,
      p_key_pressed    |-> p_key_pressed,
      has_spread_shot  |-> has_spread_shot,
      frame            |-> frame ]

\* The MainState s, as the values of the variables.
Holds(s) ==
    /\ window_size = s.window_size
    /\ player = s.player
    /\ bullets = s.bullets
    /\ enemies = s.enemies
    /\ score = s.score
    /\ spawn_timer = s.spawn_timer
    /\ game_over = s.game_over
    /\ paused = s.paused
    /\ shoot_cooldown = s.shoot_cooldown
    /\ particles = s.particles
    /\ missile_cooldown = s.missile_cooldown
    /\ missile_ammo = s.missile_ammo
    /\ ammo_spawn_timer = s.ammo_spawn_timer
    /\ ammo_items = s.ammo_items
    /\ p_key_pressed = s.p_key_pressed
    /\ has_spread_shot = s.has_spread_shot
    /\ frame = s.frame

Becomes(s) ==
    /\ window_size' = s.window_size
    /\ player' = s.player
    /\ bullets' = s.bullets
    /\ enemies' = s.enemies
    /\ score' = s.score
    /\ spawn_timer' = s.spawn_timer
    /\ game_over' = s.game_over
    /\ paused' = s.paused
    /\ shoot_cooldown' = s.shoot_cooldown
    /\ particles' = s.particles
    /\ missile_cooldown' = s.missile_cooldown
    /\ missile_ammo' = s.missile_ammo
    /\ ammo_spawn_timer' = s.ammo_spawn_timer
    /\ ammo_items' = s.ammo_items
    /\ p_key_pressed' = s.p_key_pressed
    /\ has_spread_shot' = s.has_spread_shot
    /\ frame' = s.frame

\* The number of calls of update a behaviour of the model makes.
MaxFrames == 4

NoProbe == [ kind |-> "none" ]

\* EventHandler::update, called with the inputs in.
Update(in) ==
    /\ nframes < MaxFrames
    /\ Becomes(update(State, in))
    /\ nframes' = nframes + 1
    /\ UNCHANGED probe

(* Inputs of a frame.  A frame lasts 125 ms or 250 ms, so that a shot's      *)
(* cooldown of 250 ms is once still running and once over at the next frame. *)

BaseWindow == << BASE_WINDOW_WIDTH, BASE_WINDOW_HEIGHT >>
WideWindow == << 2 * BASE_WINDOW_WIDTH, BASE_WINDOW_HEIGHT >>

Input(keys, dt, window) ==
    [ keys      |-> keys,
      dt        |-> dt,
      width     |-> window[1],
      height    |-> window[2],
      enemy_x   |-> Px(300),
      ammo_x    |-> Px(700),
      ammo_coin |-> TRUE ]

KeyChoices ==
    { {}, {"P"}, {"Space"}, {"P", "Space"}, {"X"}, {"Space", "X"}, {"Left"}, {"Up"} }

InputChoices ==
    { Input(keys, dt, BaseWindow) : keys \in KeyChoices, dt \in {125, 250} }
    \cup { Input({}, 125, WideWindow) }

(* Initial states: the state MainState::new constructs, and two states of a  *)
(* game in progress at the base window size, as they stand at the end of a   *)
(* frame: the player has been clamped to y = 708 by its first frame and has  *)
(* not moved sideways, every bullet was shot from there (x - 2.5) and has    *)
(* climbed, every enemy has descended from y = -50, an older enemy (lower    *)
(* index) being lower on the screen.  In such a state no bullet overlaps an  *)
(* enemy (the scan would have removed both) and no enemy overlaps the player *)
(* (game_over would be set); InProgress requires both.                       *)

Enemy_at(x, y) == GameObject_new(x, y, Px(40), Px(40), "Enemy")
Bullet_at(x, y) == GameObject_new(x, y, Px(5), Px(20), "Bullet")

Clamped == [ Player_new EXCEPT !.pos.y = Px(BASE_WINDOW_HEIGHT) - Px(60) ]

\* Two bullets climbing toward two enemies: in the next frame the first
\* bullet overlaps both enemies and the first enemy overlaps both bullets.
Dogfight ==
    [ MainState_new EXCEPT
        !.player = Clamped,
        !.bullets = << Bullet_at(5095, 4000), Bullet_at(5095, 4040) >>,
        !.enemies = << Enemy_at(5000, 3760), Enemy_at(5190, 3740) >>,
        !.spawn_timer = 500,
        !.ammo_spawn_timer = 3000 ]

\* An enemy next to the player's nose: its next move makes it overlap the
\* player, and a missile launched now reaches it in the same frame.
Clash ==
    [ MainState_new EXCEPT
        !.player = Clamped,
        !.enemies = << Enemy_at(5210, 6770) >>,
        !.spawn_timer = 500,
        !.ammo_spawn_timer = 3000 ]

InProgress(s) ==
    /\ ~s.game_over
    /\ \A i \in 1..Len(s.enemies) : ~intersects(s.enemies[i], s.player, s.window_size)
    /\ \A i \in 1..Len(s.bullets) : \A j \in 1..Len(s.enemies) :
            ~intersects(s.bullets[i], s.enemies[j], s.window_size)

Scenes == { s \in { MainState_new, Dogfight, Clash } : InProgress(s) }

Init ==
    /\ \E s \in Scenes : Holds(s)
    /\ nframes = 0
    /\ probe = NoProbe

Next == \E in \in InputChoices : Update(in)

Spec == Init /\ [][Next]_vars

----------------------------------------------------------------------------
(* GameObject::intersects on its own: the collision test called on pairs of *)
(* game objects of every kind, each with the size the game gives its kind,  *)
(* at a range of distances and window sizes.                                *)

game_vars ==
    << window_size, player, bullets, enemies, score, spawn_timer, game_over,
       paused, shoot_cooldown, particles, missile_cooldown, missile_ammo,
       ammo_spawn_timer, ammo_items, p_key_pressed, has_spread_shot, frame,
       nframes >>

\* The size GameObject::new is called with for each kind.
size_of(object_type) ==
    CASE object_type = "Player"        -> Vec2(Px(50), Px(60))
      [] object_type = "Bullet"        -> Vec2(Px(5), Px(20))
      [] object_type = "SpreadShot"    -> Vec2(Px(5), Px(20))
      [] object_type = "Enemy"         -> Vec2(Px(40), Px(40))
      [] object_type = "GuidedMissile" -> Vec2(Px(8), Px(24))
      [] object_type = "MissileAmmo"   -> Vec2(Px(20), Px(20))
      [] object_type = "SpreadAmmo"    -> Vec2(Px(25), Px(25))

Object_at(object_type, x, y) ==
    GameObject_new(x, y, size_of(object_type).x, size_of(object_type).y, object_type)

ProbeOffsets == { Px(0), Px(5), Px(12), Px(20), Px(27), Px(35), Px(50), Px(70) }
ProbeWindows ==
    { BaseWindow, WideWindow,
      << BASE_WINDOW_WIDTH \div 2, BASE_WINDOW_HEIGHT \div 2 >>,
      << BASE_WINDOW_WIDTH, 2 * BASE_WINDOW_HEIGHT >> }

\* The pairs the test is called on: a of kind ta at (500, 400), b of kind tb
\* at the offset (dx, dy) from it, and the window size.
ProbePairs ==
    [ kind : {"pair"}, ta : GameObjectType, tb : GameObjectType,
      dx : ProbeOffsets, dy : { Px(0), Px(12) }, window : ProbeWindows ]

\* a.intersects(b, window) and, on the same pair, b.intersects(a, window)
\* and a.intersects(b, the base window).
Intersects ==
    /\ probe.kind = "pair"
    /\ LET a == Object_at(probe.ta, Px(500), Px(400))
           b == Object_at(probe.tb, Px(500) + probe.dx, Px(400) + probe.dy)
           ws == WindowSize_new(probe.window[1], probe.window[2])
       IN  probe' = [ kind     |-> "intersects",
                      self     |-> a,
                      other    |-> b,
                      window   |-> ws,
                      result   |-> intersects(a, b, ws),
                      reversed |-> intersects(b, a, ws),
                      at_base  |-> intersects(a, b, MainState_new.window_size) ]
    /\ UNCHANGED game_vars

InitCollide ==
    /\ Holds(MainState_new)
    /\ nframes = 0
    /\ probe \in ProbePairs

NextCollide == Intersects

SpecCollide == InitCollide /\ [][NextCollide]_vars

----------------------------------------------------------------------------
(* ParticleSystem on its own: bursts and updates in any order, starting     *)
(* from the empty pool of ParticleSystem::new.                              *)

pool_rest ==
    << window_size, player, bullets, enemies, score, spawn_timer, game_over,
       paused, shoot_cooldown, missile_cooldown, missile_ammo,
       ammo_spawn_timer, ammo_items, p_key_pressed, has_spread_shot, frame,
       nframes >>

\* particles.add_explosion(pos, color, ..)
AddExplosion(pos, color) ==
    /\ particles' = add_explosion(particles, pos, color)
    /\ probe' = [ kind |-> "add_explosion", len_before |-> Len(particles) ]
    /\ UNCHANGED pool_rest

\* particles.update(dt, ..)
UpdateParticles(dt) ==
    /\ particles' = ParticleSystem_update(particles, dt)
    /\ probe' = [ kind |-> "update", len_before |-> Len(particles) ]
    /\ UNCHANGED pool_rest

InitParticles ==
    /\ Holds(MainState_new)
    /\ nframes = 0
    /\ probe = NoProbe

BurstPoint == Vec2(Px(500), Px(400))

NextParticles ==
    \/ \E color \in { ORANGE } : AddExplosion(BurstPoint, color)
    \/ \E dt \in {250, 500} : UpdateParticles(dt)

SpecParticles == InitParticles /\ [][NextParticles]_vars

----------------------------------------------------------------------------
(* Pickups: sessions in which a pickup has drifted down to the player.  A    *)
(* pickup enters at y = -30 and descends by the enemy speed each played      *)
(* frame; the player has meanwhile been clamped, has launched three of its   *)
(* five missiles (Resupply) and has shot the enemies that came.              *)

MissileAmmo_at(x, y) == GameObject_new(x, y, Px(20), Px(20), "MissileAmmo")
SpreadAmmo_at(x, y) == GameObject_new(x, y, Px(25), Px(25), "SpreadAmmo")

\* A missile-ammo pickup one step from the player, a spread-ammo pickup above.
Resupply ==
    [ MainState_new EXCEPT
        !.player = Clamped,
        !.score = 60,
        !.missile_ammo = 2,
        !.ammo_items = << MissileAmmo_at(5210, 6840), SpreadAmmo_at(5150, 4440) >>,
        !.spawn_timer = 500,
        !.ammo_spawn_timer = 3000 ]

\* A spread-ammo pickup one step from the player.
PowerUp ==
    [ MainState_new EXCEPT
        !.player = Clamped,
        !.score = 30,
        !.ammo_items = << SpreadAmmo_at(5210, 6780) >>,
        !.spawn_timer = 500,
        !.ammo_spawn_timer = 3000 ]

\* No pickup overlaps the player: the first pickup pass would have removed it.
Uncollected(s) ==
    \A i \in 1..Len(s.ammo_items) : ~intersects(s.ammo_items[i], s.player, s.window_size)

PickupScenes == { s \in { Resupply, PowerUp } : InProgress(s) /\ Uncollected(s) }

InitPickup ==
    /\ \E s \in PickupScenes : Holds(s)
    /\ nframes = 0
    /\ probe = NoProbe

SpecPickup == InitPickup /\ [][Next]_vars

----------------------------------------------------------------------------
(* Missiles: sessions with enemies spread over the screen.  An older enemy   *)
(* has the lower index and is lower on the screen.                           *)

\* Three enemies, the first the farthest from the player, the second and the
\* third at the same distance (500) from it.
Standoff ==
    [ MainState_new EXCEPT
        !.player = Clamped,
        !.score = 20,
        !.enemies = << Enemy_at(120, 5080), Enemy_at(9120, 4080), Enemy_at(8120, 3080) >>,
        !.spawn_timer = 500,
        !.ammo_spawn_timer = 3000 ]

\* Three bullets under three enemies: in the next frame the first bullet
\* reaches the third enemy and the third bullet the first enemy, while the
\* second bullet and the second enemy are far from everything.
Volley ==
    [ MainState_new EXCEPT
        !.player = Clamped,
        !.score = 10,
        !.bullets = << Bullet_at(8000, 2000), Bullet_at(5000, 5000), Bullet_at(2000, 6000) >>,
        !.enemies = << Enemy_at(2000, 5700), Enemy_at(5000, 3000), Enemy_at(8000, 1700) >>,
        !.spawn_timer = 500,
        !.ammo_spawn_timer = 3000 ]

\* The enemies of Standoff after the fifth missile has been launched.
Spent == [ Standoff EXCEPT !.missile_ammo = 0, !.score = 100 ]

MissileScenes == { s \in { Standoff, Volley, Spent } : InProgress(s) }

InitMissile ==
    /\ \E s \in MissileScenes : Holds(s)
    /\ nframes = 0
    /\ probe = NoProbe

\* The inputs of these sessions: fire, launch, dodge or wait.
MissileInputChoices ==
    { Input(keys, dt, BaseWindow) :
        keys \in { {}, {"X"}, {"Space"}, {"Left"} }, dt \in {125, 250} }

NextMissile == \E in \in MissileInputChoices : Update(in)

SpecMissile == InitMissile /\ [][NextMissile]_vars

----------------------------------------------------------------------------
(* Edges: sessions in which the player or a missile has come to an edge of  *)
(* the playfield.                                                            *)

\* The player after Left has been down for 97 played frames: 512 - 97 * 5.
Cornered ==
    [ MainState_new EXCEPT
        !.player = [ Clamped EXCEPT !.pos.x = Px(27) ],
        !.spawn_timer = 500,
        !.ammo_spawn_timer = 3000 ]

\* A missile launched at an enemy passing to the right of the player, which
\* has since left through the bottom: the missile flies on, 7 degrees below
\* the horizontal, and has come to the right edge.
Stray ==
    [ MainState_new EXCEPT
        !.player = Clamped,
        !.missile_ammo = 4,
        !.bullets = << [ GameObject_new(Px(1030), Px(740), Px(8), Px(24), "GuidedMissile")
                         EXCEPT !.rotation = 7 * DEG,
                                !.speed = heading_speed(7 * DEG, MainState_new.window_size),
                                !.target = 0,
                                !.locked = Vec2(Px(800), Px(900)) ] >>,
        !.spawn_timer = 500,
        !.ammo_spawn_timer = 3000 ]

EdgeScenes == { s \in { Cornered, Stray } : InProgress(s) }

InitEdges ==
    /\ \E s \in EdgeScenes : Holds(s)
    /\ nframes = 0
    /\ probe = NoProbe

SpecEdges == InitEdges /\ [][Next]_vars

----------------------------------------------------------------------------
(* Descent: a session left to itself, frame after frame without end.  No    *)
(* key is down, every frame lasts 250 ms and the window keeps its size, so  *)
(* the session is never paused and the player, off the column the enemies   *)
(* come down, is never hit: played frames keep occurring.                   *)

TallWindow == << BASE_WINDOW_WIDTH, 2 * BASE_WINDOW_HEIGHT >>

\* A session that began in a window twice the base height.
Tall ==
    [ MainState_new EXCEPT
        !.window_size = WindowSize_new(TallWindow[1], TallWindow[2]) ]

\* One call of update in a session that is neither paused nor over.
PlayedFrame ==
    /\ ~game_over
    /\ ~paused
    /\ LET in == [ keys      |-> {},
                   dt        |-> 250,
                   width     |-> window_size.width,
                   height    |-> window_size.height,
                   enemy_x   |-> Px(300),
                   ammo_x    |-> Px(700),
                   ammo_coin |-> TRUE ]
       IN  Becomes(update(State, in))
    /\ nframes' = (nframes + 1) % (MaxFrames + 1)
    /\ UNCHANGED probe

DescentScenes == { s \in { MainState_new, Dogfight, Tall } : InProgress(s) }

InitDescent ==
    /\ \E s \in DescentScenes : Holds(s)
    /\ nframes = 0
    /\ probe = NoProbe

NextDescent == PlayedFrame

\* The frame counter's step of a played frame: it can be taken exactly when
\* PlayedFrame can, since update is defined on every state.
Tick ==
    /\ ~game_over
    /\ ~paused
    /\ nframes' = (nframes + 1) % (MaxFrames + 1)

\* The event loop keeps calling update: while the session runs, the frame
\* counter (kept modulo MaxFrames + 1 here) advances again and again, and
\* only a played frame advances it.
SpecDescent == InitDescent /\ [][NextDescent]_vars /\ WF_nframes(Tick)

----------------------------------------------------------------------------
(* Properties. *)

\* The frame just made found game_over set and Space down: the restart.
RestartFrame == frame.game_over_at_start /\ "Space" \in frame.keys

\* The frame just made found game_over set and Space up: nothing is played.
GameOverFrame == frame.game_over_at_start /\ "Space" \notin frame.keys

\* P is down in the frame just made and was up in the frame before it.
PNewlyDown == "P" \in frame.keys /\ "P" \notin frame.prev_keys

\* C1: a played frame in which some moved enemy overlaps the player ends with
\* game_over set, and a frame that starts with game_over set ends with it set
\* unless Space is down in it.
C1_GameOverLatch ==
    [][ /\ (frame'.played /\ frame'.enemy_hit_player) => game_over'
        /\ (game_over /\ "Space" \notin frame'.keys) => game_over' ]_vars

\* C1 witness: an enemy overlapped the player in an earlier frame of a session
\* that had scored, and the frame just made, without Space, has kept
\* game_over set.
C1_Witness ==
    /\ GameOverFrame
    /\ game_over
    /\ score > 0

\* C2: after a frame that starts with game_over set and Space down, the
\* session state is the one MainState::new constructs.
C2_RestartIsInitial ==
    RestartFrame =>
        /\ score = 0
        /\ bullets = << >>
        /\ enemies = << >>
        /\ ammo_items = << >>
        /\ spawn_timer = 0
        /\ ammo_spawn_timer = 0
        /\ shoot_cooldown = 0
        /\ missile_cooldown = 0
        /\ missile_ammo = 5
        /\ ~has_spread_shot
        /\ ~game_over
        /\ ~paused
        /\ player.pos = Vec2(Px(512), Px(738))
        /\ player = MainState_new.player

\* C2 witness: a restart from a session that had scored, in a frame whose P
\* toggled the pause flag before the reset.
C2_Witness ==
    /\ RestartFrame
    /\ frame.score_at_start > 0
    /\ frame.toggled

\* C3: in a frame that starts with game_over set and does not restart, P
\* newly down leaves paused as it was.
C3_NoPauseToggleInGameOver ==
    (GameOverFrame /\ PNewlyDown) => paused = frame.paused_at_start

\* C4: the pause-key handler toggles paused only in the first frame of a run
\* of frames with P down: never in a frame whose predecessor had P down too.
C4_OneTogglePerHold ==
    frame.toggled => "P" \notin frame.prev_keys

\* C5: in a played frame, a cooldown still running after the subtraction
\* means no bullet from shoot; Space down with the cooldown at zero means one
\* bullet from shoot (five with spread shot) and a cooldown of 250 ms.  The
\* last conjunct is shoot's spread branch on the state at hand, whether or
\* not the flag is set in it.
C5_PrimaryFireGating ==
    [][ /\ frame'.played =>
            LET cooled == saturating_sub(shoot_cooldown, frame'.dt)
            IN  /\ cooled > 0 => frame'.shots = 0
                /\ ("Space" \in frame'.keys /\ cooled = 0) =>
                      /\ frame'.shots = (IF has_spread_shot THEN 5 ELSE 1)
                      /\ shoot_cooldown' = 250
        /\ Len(shoot_bullets([ State EXCEPT !.has_spread_shot = TRUE ])) = 5
        /\ Len(shoot_bullets([ State EXCEPT !.has_spread_shot = FALSE ])) = 1 ]_vars

\* C5 witness: a played frame with Space down while the cooldown of the
\* previous frame's shot is still running.
C5_Witness ==
    /\ frame.played
    /\ "Space" \in frame.keys
    /\ frame.cooldown_after_sub > 0
    /\ frame.shots = 0
    /\ bullets # << >>

\* C6: in a frame's scan no bullet is in two pairs and no enemy is in two pairs.
C6_OneToOnePairs ==
    \A i, j \in 1..Len(frame.pairs) :
        i # j => /\ frame.pairs[i][1] # frame.pairs[j][1]
                 /\ frame.pairs[i][2] # frame.pairs[j][2]

\* C6 witness: a scan in which one bullet overlapped two enemies and one enemy
\* was overlapped by two bullets.
C6_Witness ==
    /\ frame.pairs # << >>
    /\ \E b \in 1..Len(frame.scan_bullets) : \E e1, e2 \in 1..Len(frame.scan_enemies) :
          /\ e1 # e2
          /\ intersects(frame.scan_bullets[b], frame.scan_enemies[e1], window_size)
          /\ intersects(frame.scan_bullets[b], frame.scan_enemies[e2], window_size)
    /\ \E e \in 1..Len(frame.scan_enemies) : \E b1, b2 \in 1..Len(frame.scan_bullets) :
          /\ b1 # b2
          /\ intersects(frame.scan_bullets[b1], frame.scan_enemies[e], window_size)
          /\ intersects(frame.scan_bullets[b2], frame.scan_enemies[e], window_size)

\* The bullets and the enemies a frame's scan paired, by 0-based index.
DestroyedBullets(f) == { f.pairs[i][1] : i \in 1..Len(f.pairs) }
DestroyedEnemies(f) == { f.pairs[i][2] : i \in 1..Len(f.pairs) }
DestroyedMissiles(f) ==
    { b \in DestroyedBullets(f) : f.scan_bullets[b + 1].object_type = "GuidedMissile" }

\* C7: a played frame adds 10 per destroyed bullet or spread bullet and 20
\* per destroyed missile, destroys as many bullets as enemies and removes
\* them; a frame that is not played leaves the score, or restarts it at 0.
C7_ScoreAccounting ==
    [][ /\ frame'.played =>
            /\ score' = score
                 + 10 * Cardinality(DestroyedBullets(frame') \ DestroyedMissiles(frame'))
                 + 20 * Cardinality(DestroyedMissiles(frame'))
            /\ Cardinality(DestroyedBullets(frame')) = Cardinality(DestroyedEnemies(frame'))
            /\ Len(bullets') = Len(frame'.scan_bullets) - Cardinality(DestroyedBullets(frame'))
            /\ Len(enemies') = Len(frame'.scan_enemies) - Cardinality(DestroyedEnemies(frame'))
        /\ ~frame'.played =>
            \/ score' = score
            \/ game_over /\ "Space" \in frame'.keys /\ score' = 0 ]_vars

\* C7 witness: a scan that destroyed a missile and its enemy, for 20 points.
C7_Witness ==
    /\ frame.played
    /\ DestroyedMissiles(frame) # {}
    /\ score = frame.score_at_start + 20

\* C8: the score is never negative, and a frame lowers it only by a restart.
C8_ScoreMonotone ==
    /\ [](score >= 0)
    /\ [][ score' >= score \/ (game_over /\ "Space" \in frame'.keys) ]_vars

\* C8 witness: a played frame that raised a score already raised before.
C8_Witness ==
    /\ frame.played
    /\ frame.score_at_start > 0
    /\ score > frame.score_at_start

\* C9: a.intersects(b) and b.intersects(a) agree on every pair.
C9_IntersectsSymmetric ==
    probe.kind = "intersects" => probe.result = probe.reversed

\* C10: the pool never holds more than MAX_PARTICLES particles.
C10_PoolBounded == Len(particles) <= MAX_PARTICLES

\* C10 witness: a burst requested of a full pool.
C10_Witness ==
    /\ probe.kind = "add_explosion"
    /\ probe.len_before = MAX_PARTICLES
    /\ Len(particles) = MAX_PARTICLES

\* The pickups of list f.pickup_items, by 0-based index, that overlap the
\* player p in window ws: the test of both pickup passes.
Overlapped(f, p, ws) ==
    { i \in 0..(Len(f.pickup_items) - 1) : intersects(f.pickup_items[i + 1], p, ws) }

OverlappedOfKind(f, p, ws, kind) ==
    { i \in Overlapped(f, p, ws) : f.pickup_items[i + 1].object_type = kind }

\* The bursts of colour c a frame requested, in order.
BurstsOf(f, c) ==
    LET has_colour(b) == b.color = c
    IN  SelectSeq(f.bursts, has_colour)

\* C11: a played frame in which the player overlaps missile-ammo pickups, and
\* pickups of no other kind, gains exactly 3 missiles per pickup over what the
\* frame's launch spent, removes exactly the overlapping pickups and requests
\* one cyan burst at each of them; the second pickup pass collects nothing.
C11_MissilePickup ==
    [][ LET over == Overlapped(frame', player', window_size')
            kept(item) == ~intersects(item, player', window_size')
        IN  ( /\ frame'.played
              /\ over # {}
              /\ over = OverlappedOfKind(frame', player', window_size', "MissileAmmo") ) =>
                /\ missile_ammo' = missile_ammo - frame'.launched + 3 * Cardinality(over)
                /\ ammo_items' = SelectSeq(frame'.pickup_items, kept)
                /\ Len(ammo_items') = Len(frame'.pickup_items) - Cardinality(over)
                /\ Len(BurstsOf(frame', CYAN)) = Cardinality(over)
                /\ \A i \in over : \E k \in 1..Len(frame'.bursts) :
                       frame'.bursts[k] = [ pos |-> frame'.pickup_items[i + 1].pos,
                                            color |-> CYAN ]
                /\ frame'.collected_second = << >> ]_vars

\* C11 witness: with 2 missiles and no launch, the player has collected one
\* missile-ammo pickup and has 5, and the other pickup is still in the list.
C11_Witness ==
    /\ frame.played
    /\ Overlapped(frame, player, window_size) = {0}
    /\ frame.pickup_items[1].object_type = "MissileAmmo"
    /\ frame.ammo_at_start = 2
    /\ frame.launched = 0
    /\ missile_ammo = 5
    /\ Len(ammo_items) = 1

\* C12: a played frame in which the player overlaps a spread-ammo pickup ends
\* with has_spread_shot set, and the flag stays set until a restart.
C12_SpreadPickupSetsFlag ==
    [][ /\ ( /\ frame'.played
             /\ OverlappedOfKind(frame', player', window_size', "SpreadAmmo") # {} ) =>
                has_spread_shot'
        /\ has_spread_shot => (has_spread_shot' \/ frame'.restarted) ]_vars

\* C13: in a played frame with X down and the missile cooldown at zero after
\* the subtraction, when there is no enemy or no missile ammo, no missile is
\* launched and the missile cooldown is still zero after the frame.
C13_EmptyLaunchIsNoOp ==
    [][ ( /\ frame'.played
          /\ "X" \in frame'.keys
          /\ saturating_sub(missile_cooldown, frame'.dt) = 0
          /\ (enemies = << >> \/ missile_ammo <= 0) ) =>
            /\ frame'.launched = 0
            /\ missile_cooldown' = 0 ]_vars

\* C14: a launch targets an enemy at the least distance from the player
\* among the enemies present at the launch, the lowest index among ties.
C14_TargetIsNearest ==
    frame.launched > 0 =>
        LET E == frame.launch_enemies
            t == frame.launch_target
            d(i) == distance_squared(E[i + 1].pos, frame.launch_from)
        IN  /\ E # << >>
            /\ t \in 0..(Len(E) - 1)
            /\ \A j \in 0..(Len(E) - 1) : d(t) <= d(j)
            /\ \A j \in 0..(t - 1) : d(j) > d(t)

\* C14 witness: a launch with three enemies present, the first farther than
\* the target and the third as near as the target, which is the second.
C14_Witness ==
    /\ frame.launched > 0
    /\ Len(frame.launch_enemies) = 3
    /\ frame.launch_target = 1
    /\ distance_squared(frame.launch_enemies[3].pos, frame.launch_from)
         = distance_squared(frame.launch_enemies[2].pos, frame.launch_from)
    /\ distance_squared(frame.launch_enemies[1].pos, frame.launch_from)
         > distance_squared(frame.launch_enemies[2].pos, frame.launch_from)

\* C15: whenever a missile's steering reads an enemy through its target
\* index, that enemy is the one the missile was launched at.
C15_SteersOnlyToLocked ==
    \A k \in 1..Len(frame.steered) : frame.steered[k].read = frame.steered[k].locked

\* The rectangle of obj's size centred on its position, as draw places it
\* (offset 0.5, 0.5), lies inside the playfield.
SpriteInside(obj) ==
    /\ obj.pos.x - obj.base_size.x \div 2 >= 0
    /\ obj.pos.x + obj.base_size.x \div 2 <= Px(BASE_WINDOW_WIDTH)
    /\ obj.pos.y - obj.base_size.y \div 2 >= 0
    /\ obj.pos.y + obj.base_size.y \div 2 <= Px(BASE_WINDOW_HEIGHT)

\* C16: in every state the player's sprite lies inside the playfield.
C16_PlayerSpriteInside == SpriteInside(player)

\* obj is off the playfield by more than its own size, past some edge: out
\* of sight wherever on its rectangle its position is taken to be.
Outside(obj) ==
    \/ obj.pos.x < -obj.base_size.x
    \/ obj.pos.x > Px(BASE_WINDOW_WIDTH) + obj.base_size.x
    \/ obj.pos.y < -obj.base_size.y
    \/ obj.pos.y > Px(BASE_WINDOW_HEIGHT) + obj.base_size.y

\* C17: the retain pass of a played frame keeps no bullet that was already
\* outside the playfield before the frame moved it.
C17_LeftBulletsRemoved ==
    frame.played => \A b \in frame.kept_from : ~Outside(b)

\* The elements of list whose 0-based index is not in marked, in their order.
Survivors(list, marked) ==
    LET keep == (0..(Len(list) - 1)) \ marked
    IN  [ k \in 1..Cardinality(keep) |->
            list[(CHOOSE i \in keep : Cardinality({ j \in keep : j < i }) = k - 1) + 1] ]

\* C18: after a played frame the bullets are the bullets the scan saw minus
\* the marked ones, in their order, and likewise the enemies.
C18_RemovalBookkeeping ==
    frame.played =>
        /\ bullets = Survivors(frame.scan_bullets, DestroyedBullets(frame))
        /\ enemies = Survivors(frame.scan_enemies, DestroyedEnemies(frame))

\* C18 witness: a frame that marked the first and the third of three bullets
\* and of three enemies, and left the second of each.
C18_Witness ==
    /\ frame.played
    /\ Len(frame.scan_bullets) = 3
    /\ DestroyedBullets(frame) = {0, 2}
    /\ DestroyedEnemies(frame) = {0, 2}
    /\ bullets = << frame.scan_bullets[2] >>
    /\ enemies = << frame.scan_enemies[2] >>

\* C19: a burst requested of a pool of n particles leaves a pool that begins
\* with those n particles, unchanged and in order, and has
\* min(10, MAX_PARTICLES - n) more; the last conjunct is the count for a pool
\* three short of the cap.
C19_BurstTruncates ==
    [][ probe'.kind = "add_explosion" =>
            LET n == Len(particles)
            IN  /\ Len(particles') = n + Min(10, MAX_PARTICLES - n)
                /\ SubSeq(particles', 1, n) = particles
                /\ particles_to_add([ i \in 1..(MAX_PARTICLES - 3) |-> 0 ]) = 3 ]_vars

\* C19 witness: a burst requested of a full pool of particles of different
\* ages has added nothing and left the pool full.
C19_Witness ==
    /\ probe.kind = "add_explosion"
    /\ probe.len_before = MAX_PARTICLES
    /\ Len(particles) = MAX_PARTICLES
    /\ particles[1].lifetime < particles[MAX_PARTICLES].lifetime

\* C20: the radius the test uses for an entity does not depend on which of
\* the two entities the test is called on: the radii of a.intersects(b) are
\* those of b.intersects(a), exchanged.
C20_OneRadiusPerEntity ==
    probe.kind = "intersects" =>
        LET called_on_self == intersects_radii(probe.self, probe.other)
            called_on_other == intersects_radii(probe.other, probe.self)
        IN  /\ called_on_self[1] = called_on_other[2]
            /\ called_on_self[2] = called_on_other[1]

\* C21: for the same two entities, intersects returns at every window size
\* what it returns at the base window size.
C21_WindowIndependent ==
    probe.kind = "intersects" => probe.result = probe.at_base

\* C22: a played frame that launches no missile and in which the player
\* overlaps spread-ammo pickups only leaves missile_ammo as it was, and the
\* bursts it requests at those pickups are orange, none cyan.
C22_SpreadPickupGrantsNoMissiles ==
    [][ LET over == Overlapped(frame', player', window_size')
        IN  ( /\ frame'.played
              /\ frame'.launched = 0
              /\ over # {}
              /\ over = OverlappedOfKind(frame', player', window_size', "SpreadAmmo") ) =>
                /\ missile_ammo' = missile_ammo
                /\ BurstsOf(frame', CYAN) = << >>
                /\ \A i \in over : \E k \in 1..Len(frame'.bursts) :
                       frame'.bursts[k] = [ pos |-> frame'.pickup_items[i + 1].pos,
                                            color |-> ORANGE ] ]_vars

\* The number of guided missiles in a list of bullets.
MissileCount(list) ==
    Cardinality({ i \in 1..Len(list) : list[i].object_type = "GuidedMissile" })

\* C23: missile_ammo is never negative; a played frame adds a missile to the
\* bullets only when X is down, the missile cooldown is zero after the
\* subtraction, there is an enemy and there is ammo, and then exactly one,
\* for exactly one unit of ammo; a frame that is not played adds none.
C23_MissileLaunch ==
    /\ [](missile_ammo >= 0)
    /\ [][ LET added == MissileCount(frame'.before_move) - MissileCount(bullets)
               may_launch ==
                   /\ "X" \in frame'.keys
                   /\ saturating_sub(missile_cooldown, frame'.dt) = 0
                   /\ enemies # << >>
                   /\ missile_ammo > 0
           IN  /\ frame'.played =>
                    /\ added = (IF may_launch THEN 1 ELSE 0)
                    /\ frame'.launched = added
                    /\ missile_ammo' = missile_ammo - added
                          + AMMO_PER_PICKUP
                              * Cardinality(Overlapped(frame', player', window_size'))
               /\ ~frame'.played =>
                    /\ MissileCount(bullets') <= MissileCount(bullets)
                    /\ missile_ammo' = missile_ammo \/ frame'.restarted ]_vars

\* C23 witness: X was down with the cooldown at zero and enemies present but
\* no ammo: the frame has added no missile and the ammo is still zero.
C23_Witness ==
    /\ frame.played
    /\ "X" \in frame.keys
    /\ missile_cooldown = MISSILE_COOLDOWN
    /\ frame.scan_enemies # << >>
    /\ frame.ammo_at_start = 0
    /\ frame.launched = 0
    /\ MissileCount(frame.before_move) = 0
    /\ missile_ammo = 0

\* C24: a played frame spawns an enemy iff spawn_timer plus the frame's dt is
\* at least 1000 ms, one enemy at most, above the top edge, and then leaves
\* the timer at zero, otherwise at the sum; a frame that is not played
\* leaves the timer and spawns nothing (a restart empties both).
C24_SpawnTiming ==
    [][ LET timer == spawn_timer + frame'.dt
            due == timer >= SPAWN_INTERVAL
            step == enemy_speed(window_size')
            staying == { i \in 1..Len(enemies) :
                            enemies[i].pos.y + step < Px(BASE_WINDOW_HEIGHT) }
            seen == frame'.scan_enemies
        IN  /\ frame'.played =>
                 /\ Len(seen) = Cardinality(staying) + (IF due THEN 1 ELSE 0)
                 /\ spawn_timer' = (IF due THEN 0 ELSE timer)
                 /\ due => /\ seen[Len(seen)].object_type = "Enemy"
                            /\ seen[Len(seen)].pos.y = step - Px(50)
            /\ ~frame'.played =>
                 \/ spawn_timer' = spawn_timer /\ enemies' = enemies
                 \/ frame'.restarted /\ spawn_timer' = 0 /\ enemies' = << >> ]_vars

\* C24 witness: the session was paused and resumed by the previous frame's P,
\* and in this frame the timer, which the paused frames left alone, has come
\* to a second and the frame has spawned an enemy.
C24_Witness ==
    /\ frame.played
    /\ "P" \in frame.prev_keys
    /\ spawn_timer = 0
    /\ frame.scan_enemies # << >>
    /\ frame.scan_enemies[Len(frame.scan_enemies)].pos.y = enemy_speed(window_size) - Px(50)

\* C25: no enemy is at y >= 768 after a played frame, and every enemy is
\* eventually removed.  The list keeps the enemies oldest first, the older
\* the lower on the screen, and the retain pass drops those that have come
\* to the bottom, which are therefore the first ones of the list; so every
\* enemy is eventually removed if, again and again, the list is empty or the
\* retain pass has dropped an enemy.
C25_EnemiesLeave ==
    /\ [](frame.played =>
            \A i \in 1..Len(enemies) : enemies[i].pos.y < Px(BASE_WINDOW_HEIGHT))
    /\ [](\A i, j \in 1..Len(enemies) : i < j => enemies[i].pos.y >= enemies[j].pos.y)
    /\ []<>(enemies = << >> \/ frame.dropped > 0)

\* C25 witness: the retain pass of a played frame has dropped an enemy that
\* came to the bottom, with younger enemies still on their way.
C25_Witness ==
    /\ frame.played
    /\ frame.dropped = 1
    /\ enemies # << >>

\* C26: the burst of every pair of a frame's scan is requested at the position
\* of the pair's enemy, the point intersects and draw take as its centre.
C26_BurstAtEnemyCentre ==
    frame.played =>
        /\ Len(BurstsOf(frame, ORANGE)) >= Len(frame.pairs)
        /\ \A i \in 1..Len(frame.pairs) :
              BurstsOf(frame, ORANGE)[i].pos = frame.scan_enemies[frame.pairs[i][2] + 1].pos

\* C27: a frame that is paused once the pause key has been handled, or that
\* starts in game-over with Space up, leaves the player, the bullets, the
\* enemies, the pickups, the particles, the score, the missile ammo, the
\* spread-shot flag, both cooldowns and both spawn timers as they were.
C27_FrozenFrames ==
    [][ ( \/ ~game_over /\ paused'
          \/ game_over /\ "Space" \notin frame'.keys ) =>
            UNCHANGED << player, bullets, enemies, ammo_items, particles, score,
                         missile_ammo, has_spread_shot, shoot_cooldown,
                         missile_cooldown, spawn_timer, ammo_spawn_timer >> ]_vars

\* C27 witness: a frame that started in game-over with Space up, in which the
\* P key paused the session, with enemies and bullets on the screen.
C27_Witness ==
    /\ frame.game_over_at_start
    /\ "Space" \notin frame.keys
    /\ ~frame.restarted
    /\ frame.toggled
    /\ paused
    /\ enemies # << >>
    /\ bullets # << >>

\* C28: a played frame with no movement key down leaves the player where it
\* was, in the first played frame of a session or after a restart as well.
C28_PlayerStaysWithoutKeys ==
    [][ LET movement == { "Left", "Right", "Up", "Down", "A", "D", "W", "S" }
        IN  ( frame'.played /\ frame'.keys \cap movement = {} ) =>
                player'.pos = player.pos ]_vars
====
